---- MODULE Spec2Model ----
(***************************************************************************)
(* Flora_Pac: range normalisation (merge_all), fragmentation               *)
(* (fregment_net/fregment_nets), hash partitioning (hash_nets), the        *)
(* emitted table and the lookup_ip procedure embedded in the PAC file.     *)
(*                                                                         *)
(* IPv4 addresses are AddrBits wide in the model (32 in the program); all  *)
(* the algorithms are parametric in the width, and every 32 of the source  *)
(* is written AddrBits here.  Prefix lengths range over 0 .. AddrBits,     *)
(* steps over 1 .. MaxStep and bucket counts over 1 .. MaxBase.            *)
(*                                                                         *)
(* The bypass and proxy renderers (generate_no_proxy,                      *)
(* generate_balanced_proxy) build texts, modelled as sequences of tokens.  *)
(* The feed reader (fetch_ip_data) depends on hexadecimal digits and on    *)
(* dotted masks, so it is modelled at the full width of 32 bits.           *)
(***************************************************************************)
EXTENDS Integers, Sequences, FiniteSets, TLC

AddrBits == 2
MaxLen == 3
MaxFeedLen == 2
MaxUnitLen == 2
MaxStep == 3
MaxBase == 3
MaxNoProxy == 2
MaxProxies == 2
MaxKey == 3
MaxLines == 2
MaxTextLines == 2
MaxHostLen == 3

VARIABLES input, networks, i, pc, pass, first, results,
          min_prefixlen, max_prefixlen, mask_step, hash_base,
          fragmented, hashed_results, table, mvars, ip, found, probes,
          merged_net, iterations,
          no_proxy, no_proxy_js, proxies, balance, proxy_js, key, selected,
          status_code, data, cndata, item, fetched, raised,
          calls, temp_files, files, cwd_exists, fetches,
          host, hash, unmasked

vars == <<input, networks, i, pc, pass, first, results,
          min_prefixlen, max_prefixlen, mask_step, hash_base,
          fragmented, hashed_results, table, mvars, ip, found, probes,
          merged_net, iterations,
          no_proxy, no_proxy_js, proxies, balance, proxy_js, key, selected,
          status_code, data, cndata, item, fetched, raised,
          calls, temp_files, files, cwd_exists, fetches,
          host, hash, unmasked>>

\* the state of the two renderers, of the feed reader and of the web
\* controller, which the pipeline never touches
\* the state of one run of hash_string inside target_host_balance
hashing == <<host, hash, unmasked>>
rendering == <<no_proxy, no_proxy_js, proxies, balance, proxy_js, key, selected,
               hashing>>
feed == <<status_code, data, cndata, item, fetched, raised>>
web == <<calls, temp_files, files, cwd_exists, fetches>>
side == <<rendering, feed, web>>

\* the state of the pipeline, which the renderers and the feed reader never
\* touch
pipeline == <<input, networks, i, pass, first, results,
              min_prefixlen, max_prefixlen, mask_step, hash_base,
              fragmented, hashed_results, table, mvars, ip, found, probes,
              merged_net, iterations>>

(***************************************************************************)
(* ipaddress.IPv4Network values                                            *)
(***************************************************************************)
RECURSIVE Pow2(_)
Pow2(n) == IF n <= 0 THEN 1 ELSE 2 * Pow2(n - 1)

Addresses == 0 .. (Pow2(AddrBits) - 1)

IPv4Network(address, prefixlen) ==
    [network_address |-> address, prefixlen |-> prefixlen]

Networks ==
    UNION { { IPv4Network(k * Pow2(AddrBits - p), p) : k \in 0 .. (Pow2(p) - 1) }
            : p \in 0 .. AddrBits }

None == [network_address |-> -1, prefixlen |-> -1]

num_addresses(net) == Pow2(AddrBits - net.prefixlen)

broadcast_address(net) == net.network_address + num_addresses(net) - 1

\* the dotted-decimal netmask of a network, as a number
netmask(net) == Pow2(AddrBits) - Pow2(AddrBits - net.prefixlen)

\* IPv4Network.supernet(): a /0 network is its own supernet
supernet(net) ==
    IF net.prefixlen = 0 THEN net
    ELSE IPv4Network(
           (net.network_address \div (2 * num_addresses(net))) * (2 * num_addresses(net)),
           net.prefixlen - 1)

\* IPv4Network.__lt__: by network address, then by netmask
NetLess(a, b) ==
    \/ a.network_address < b.network_address
    \/ /\ a.network_address = b.network_address
       /\ a.prefixlen < b.prefixlen

RECURSIVE InsertSorted(_, _)
InsertSorted(x, s) ==
    IF s = <<>> THEN <<x>>
    ELSE IF NetLess(x, Head(s)) THEN <<x>> \o s
    ELSE <<Head(s)>> \o InsertSorted(x, Tail(s))

\* sorted(networks): stable, ascending
RECURSIVE sorted(_)
sorted(s) ==
    IF s = <<>> THEN <<>>
    ELSE InsertSorted(s[Len(s)], sorted(SubSeq(s, 1, Len(s) - 1)))

(***************************************************************************)
(* ip_data.merge_nets                                                      *)
(***************************************************************************)
merge_nets_no_broadcast_check(net1, net2) ==
    LET super_net1 == supernet(net1)
        super_net2 == supernet(net2)
    IN  IF /\ super_net1 = super_net2
           /\ super_net1.network_address = net1.network_address
        THEN super_net1
        ELSE None

merge_nets(net1, net2) ==
    LET super_net1 == supernet(net1)
        super_net2 == supernet(net2)
    IN  IF /\ super_net1 = super_net2
           /\ super_net1.network_address = net1.network_address
           /\ broadcast_address(super_net1) = broadcast_address(net2)
        THEN super_net1
        ELSE None

ReplacePair_no_pop(s, k, merged) ==
    [s EXCEPT ![k] = merged]

\* networks[i-1] = merged_net ; networks.pop(i)   (i is the 0-based cursor)
ReplacePair(s, k, merged) ==
    SubSeq(s, 1, k - 1) \o <<merged>> \o SubSeq(s, k + 2, Len(s))

(***************************************************************************)
(* network_ops: fragmentation                                              *)
(***************************************************************************)
target_prefixlen_unrounded(net, step) ==
    net.prefixlen

target_prefixlen_next_multiple(net, step) ==
    (net.prefixlen \div step) * step + step

target_prefixlen_plus_step(net, step) ==
    IF net.prefixlen % step = 0 THEN net.prefixlen + step
    ELSE ((net.prefixlen - 1) \div step) * step + step

target_prefixlen(net, step) ==
    ((net.prefixlen - 1) \div step) * step + step

subnets_raises_never(net, new_prefix) == FALSE

\* IPv4Network.subnets(new_prefix=...) raises ValueError
subnets_raises(net, new_prefix) ==
    /\ net.prefixlen # AddrBits
    /\ \/ new_prefix < net.prefixlen
       \/ new_prefix > AddrBits

subnets_drop_last(net, new_prefix) ==
    IF net.prefixlen = AddrBits THEN <<net>>
    ELSE LET diff  == new_prefix - net.prefixlen
             stride == num_addresses(net) \div Pow2(diff)
         IN  [k \in 1 .. (Pow2(diff) - 1) |->
                 IPv4Network(net.network_address + (k - 1) * stride, new_prefix)]

subnets_descending(net, new_prefix) ==
    IF net.prefixlen = AddrBits THEN <<net>>
    ELSE LET diff  == new_prefix - net.prefixlen
             stride == num_addresses(net) \div Pow2(diff)
         IN  [k \in 1 .. Pow2(diff) |->
                 IPv4Network(net.network_address + (Pow2(diff) - k) * stride, new_prefix)]

\* list(net.subnets(new_prefix=...)) when it does not raise
subnets(net, new_prefix) ==
    IF net.prefixlen = AddrBits THEN <<net>>
    ELSE LET diff  == new_prefix - net.prefixlen
             stride == num_addresses(net) \div Pow2(diff)
         IN  [k \in 1 .. Pow2(diff) |->
                 IPv4Network(net.network_address + (k - 1) * stride, new_prefix)]

fregment_net(net, step) ==
    IF subnets_raises(net, target_prefixlen(net, step))
    THEN <<net>>
    ELSE subnets(net, target_prefixlen(net, step))

RECURSIVE fregment_nets(_, _)
fregment_nets(nets, step) ==
    IF nets = <<>> THEN <<>>
    ELSE fregment_net(Head(nets), step) \o fregment_nets(Tail(nets), step)

(***************************************************************************)
(* network_ops: hashing and prefix range                                   *)
(***************************************************************************)
hash_address(address, mod_base) == address % mod_base

RECURSIVE hash_nets_into_prepend(_, _, _)
hash_nets_into_prepend(hashed, nets, mod_base) ==
    IF nets = <<>> THEN hashed
    ELSE LET bucket_index == hash_address(Head(nets).network_address, mod_base)
         IN  hash_nets_into_prepend(
               [hashed EXCEPT ![bucket_index + 1] = <<Head(nets)>> \o @],
               Tail(nets), mod_base)

RECURSIVE hash_nets_into(_, _, _)
hash_nets_into(hashed, nets, mod_base) ==
    IF nets = <<>> THEN hashed
    ELSE LET bucket_index == hash_address(Head(nets).network_address, mod_base)
         IN  hash_nets_into(
               [hashed EXCEPT ![bucket_index + 1] = Append(@, Head(nets))],
               Tail(nets), mod_base)

hash_nets(nets, mod_base) ==
    hash_nets_into([k \in 1 .. mod_base |-> <<>>], nets, mod_base)

calculate_prefix_range_full_span(nets) ==
    IF nets = <<>> THEN <<0, AddrBits>>
    ELSE <<CHOOSE p \in 0 .. AddrBits :
              /\ \E k \in 1 .. Len(nets) : nets[k].prefixlen = p
              /\ \A k \in 1 .. Len(nets) : nets[k].prefixlen >= p,
           CHOOSE p \in 0 .. AddrBits :
              /\ \E k \in 1 .. Len(nets) : nets[k].prefixlen = p
              /\ \A k \in 1 .. Len(nets) : nets[k].prefixlen <= p>>

calculate_prefix_range(nets) ==
    IF nets = <<>> THEN <<AddrBits, 0>>
    ELSE <<CHOOSE p \in 0 .. AddrBits :
              /\ \E k \in 1 .. Len(nets) : nets[k].prefixlen = p
              /\ \A k \in 1 .. Len(nets) : nets[k].prefixlen >= p,
           CHOOSE p \in 0 .. AddrBits :
              /\ \E k \in 1 .. Len(nets) : nets[k].prefixlen = p
              /\ \A k \in 1 .. Len(nets) : nets[k].prefixlen <= p>>

(***************************************************************************)
(* pac_generator: the emitted table and the embedded JavaScript            *)
(***************************************************************************)
\* the prefix lengths p for which "var m<p> = <p>;" is emitted
mask_variables(min_len, max_len, step) ==
    { p \in min_len .. max_len : (p - min_len) % step = 0 }

\* [int(net.network_address) >> (32 - net.prefixlen), m<prefixlen>]: the
\* second component is the name m<prefixlen>, written as its index
emit_pair(net) ==
    <<net.network_address \div Pow2(AddrBits - net.prefixlen), net.prefixlen>>

emit_table(hashed) ==
    [k \in 1 .. Len(hashed) |->
        [j \in 1 .. Len(hashed[k]) |-> emit_pair(hashed[k][j])]]

\* evaluating the table literal: every name m<p> in it must be declared
table_evaluates(hashed_nets, declared) ==
    \A k \in 1 .. Len(hashed_nets) : \A j \in 1 .. Len(hashed_nets[k]) :
        hashed_nets[k][j][2] \in declared

\* JavaScript shift operators use the shift count modulo the word width
ShiftCount(n) == n % AddrBits

RECURSIVE BitAnd(_, _)
BitAnd(a, b) ==
    IF a = 0 \/ b = 0 THEN 0
    ELSE (a % 2) * (b % 2) + 2 * BitAnd(a \div 2, b \div 2)

hash_masked_ip(n_ip, mask_len, mod_base) ==
    LET offset == AddrBits - mask_len
        net    == n_ip \div Pow2(ShiftCount(offset))
    IN  (net * Pow2(offset)) % mod_base

prefixlen2mask(prefixlen) ==
    ((Pow2(AddrBits) - 1) * Pow2(ShiftCount(AddrBits - prefixlen))) % Pow2(AddrBits)

rebuild_net_zero_mask(pair) ==
    << (pair[1] * Pow2(ShiftCount(AddrBits - pair[2]))) % Pow2(AddrBits), 0 >>

rebuild_net(pair) ==
    << (pair[1] * Pow2(ShiftCount(AddrBits - pair[2]))) % Pow2(AddrBits),
       prefixlen2mask(pair[2]) >>

\* PAC builtin isInNet(host, pattern, mask)
isInNet(addr, pattern, mask) == BitAnd(addr, mask) = BitAnd(pattern, mask)

RECURSIVE lookup_loop(_, _, _, _, _, _)
lookup_loop(n_ip, len, hashed_nets, HASH_BASE, MASK_STEP, max_len) ==
    IF len > max_len THEN FALSE
    ELSE LET k    == hash_masked_ip(n_ip, len, HASH_BASE)
             ref  == hashed_nets[k + 1]
         IN  IF \E j \in 1 .. Len(ref) :
                    isInNet(n_ip, rebuild_net(ref[j])[1], rebuild_net(ref[j])[2])
             THEN TRUE
             ELSE lookup_loop(n_ip, len + MASK_STEP, hashed_nets,
                              HASH_BASE, MASK_STEP, max_len)

\* the number of buckets the while loop of lookup_ip reads before it returns
RECURSIVE lookup_probes(_, _, _, _, _, _)
lookup_probes(n_ip, len, hashed_nets, HASH_BASE, MASK_STEP, max_len) ==
    IF len > max_len THEN 0
    ELSE LET k    == hash_masked_ip(n_ip, len, HASH_BASE)
             ref  == hashed_nets[k + 1]
         IN  IF \E j \in 1 .. Len(ref) :
                    isInNet(n_ip, rebuild_net(ref[j])[1], rebuild_net(ref[j])[2])
             THEN 1
             ELSE 1 + lookup_probes(n_ip, len + MASK_STEP, hashed_nets,
                                    HASH_BASE, MASK_STEP, max_len)

lookup_ip(n_ip, hashed_nets, HASH_BASE, MASK_STEP, min_len, max_len) ==
    lookup_loop(n_ip, min_len, hashed_nets, HASH_BASE, MASK_STEP, max_len)

(***************************************************************************)
(* ip_data: fetch_ip_data.  The feed is modelled at the program's width:   *)
(* an address is its four octets, and a count, which can exceed the        *)
(* checker's integers, is its hexadecimal digits, most significant first.  *)
(***************************************************************************)
\* the character 'x' of hex() of a negative number, among the digits 0 .. 15
LetterX == 16

RECURSIVE Decrement(_)
Decrement(n) ==
    IF n[Len(n)] = 0
    THEN Decrement(SubSeq(n, 1, Len(n) - 1)) \o <<15>>
    ELSE SubSeq(n, 1, Len(n) - 1) \o <<n[Len(n)] - 1>>

RECURSIVE StripZeros(_)
StripZeros(n) ==
    IF Len(n) > 1 /\ Head(n) = 0 THEN StripZeros(Tail(n)) ELSE n

\* hex(0xffffffff ^ (num_ip - 1))[2:]
imask_text(num_ip) ==
    IF StripZeros(num_ip) = <<0>>
    THEN <<LetterX, 1, 0, 0, 0, 0, 0, 0, 0, 0>>
    ELSE LET m      == Decrement(num_ip)
             padded == IF Len(m) >= 8 THEN m
                       ELSE [j \in 1 .. (8 - Len(m)) |-> 0] \o m
         IN  StripZeros([j \in 1 .. Len(padded) |->
                            IF j > Len(padded) - 8 THEN 15 - padded[j]
                            ELSE padded[j]])

\* imask[a:b]
Slice(text, a, b) ==
    SubSeq(text, a + 1, IF b < Len(text) THEN b ELSE Len(text))

\* int(i, 16) of at most two characters: -1 stands for its ValueError
int16(chars) ==
    IF chars = <<>> \/ \E j \in 1 .. Len(chars) : chars[j] = LetterX THEN -1
    ELSE IF Len(chars) = 1 THEN chars[1]
    ELSE 16 * chars[1] + chars[2]

Bits8(o) ==
    [j \in 1 .. 8 |-> (o \div Pow2(8 - j)) % 2]

Bits32(octets) ==
    Bits8(octets[1]) \o Bits8(octets[2]) \o Bits8(octets[3]) \o Bits8(octets[4])

\* IPv4Network._prefix_from_ip_int: -1 stands for its ValueError
prefix_from_ip_int(bits) ==
    IF \E p \in 0 .. 32 : \A j \in 1 .. 32 : bits[j] = (IF j <= p THEN 1 ELSE 0)
    THEN CHOOSE p \in 0 .. 32 :
             \A j \in 1 .. 32 : bits[j] = (IF j <= p THEN 1 ELSE 0)
    ELSE -1

\* IPv4Network._prefix_from_ip_string: a netmask, else a hostmask
prefix_from_ip_string(mask) ==
    IF prefix_from_ip_int(Bits32(mask)) # -1
    THEN prefix_from_ip_int(Bits32(mask))
    ELSE prefix_from_ip_int([j \in 1 .. 32 |-> 1 - Bits32(mask)[j]])

\* ipaddress.ip_network("%s/%s" % (starting_ip, mask)), strict: None stands
\* for its ValueError
ip_network_with_mask(starting_ip, mask) ==
    IF \E j \in 1 .. 4 : starting_ip[j] > 255 THEN None
    ELSE LET p == prefix_from_ip_string(mask)
         IN  IF p = -1 THEN None
             ELSE IF \E j \in (p + 1) .. 32 : Bits32(starting_ip)[j] = 1 THEN None
             ELSE IPv4Network(starting_ip, p)

\* the body of the try of fetch_ip_data: None when the entry is skipped
parse_item(unit_items) ==
    LET imask == imask_text(unit_items.num_ip)
        mask  == << int16(Slice(imask, 0, 2)), int16(Slice(imask, 2, 4)),
                    int16(Slice(imask, 4, 6)), int16(Slice(imask, 6, 8)) >>
    IN  IF \E j \in 1 .. 4 : mask[j] = -1 THEN None
        ELSE ip_network_with_mask(unit_items.starting_ip, mask)

\* cnregex.findall(data): the lines apnic|cn|ipv4|...
findall(lines) == SelectSeq(lines, LAMBDA l : l.cc = "CN")

(***************************************************************************)
(* pac_generator: generate_no_proxy.  Texts are sequences of tokens, and   *)
(* formatting a text into another concatenates their tokens.               *)
(***************************************************************************)
\* the text of a literal address, e.g. '10.0.0.1'
AddressText(a) == <<ToString(a)>>

\* the text of a network in CIDR notation, e.g. '10.0.0.0/8'
NetworkText(a, p) == <<ToString(a), "/", ToString(p)>>

\* ipaddress.ip_address(n) does not raise ValueError
ip_address_parses(n) == \E a \in Addresses : n = AddressText(a)

\* ipaddress.ip_network(n), strict: None stands for its ValueError
ip_network(n) ==
    IF \E a \in Addresses : n = AddressText(a)
    THEN IPv4Network(CHOOSE a \in Addresses : n = AddressText(a), AddrBits)
    ELSE IF \E a \in Addresses, p \in 0 .. AddrBits :
               n = NetworkText(a, p) /\ a % Pow2(AddrBits - p) = 0
    THEN CHOOSE net \in Networks :
               n = NetworkText(net.network_address, net.prefixlen)
    ELSE None

RECURSIVE generate_no_proxy_network_first(_, _)
generate_no_proxy_network_first(s, entries) ==
    IF entries = <<>> THEN s
    ELSE LET n   == Head(entries)
             net == ip_network(n)
         IN  generate_no_proxy_network_first(
               IF net # None
               THEN s \o <<" isInNet(ip, '", ToString(net.network_address),
                           "', '", ToString(netmask(net)), "')", " ||">>
               ELSE IF ip_address_parses(n)
               THEN s \o <<" ip == '">> \o n \o <<"'", " ||">>
               ELSE s \o <<" host == '">> \o n \o <<"'", " ||">>,
               Tail(entries))

\* the loop of generate_no_proxy: s is the text built so far
RECURSIVE generate_no_proxy_loop(_, _)
generate_no_proxy_loop(s, entries) ==
    IF entries = <<>> THEN s
    ELSE LET n   == Head(entries)
             net == ip_network(n)
         IN  generate_no_proxy_loop(
               IF ip_address_parses(n)
               THEN s \o <<" ip == '">> \o n \o <<"'", " ||">>
               ELSE IF net # None
               THEN s \o <<" isInNet(ip, '", ToString(net.network_address),
                           "', '", ToString(netmask(net)), "')", " ||">>
               ELSE s \o <<" host == '">> \o n \o <<"'", " ||">>,
               Tail(entries))

generate_no_proxy(entries) == generate_no_proxy_loop(<<>>, entries)

(***************************************************************************)
(* pac_generator: generate_balanced_proxy and the functions it emits       *)
(***************************************************************************)
\* what generate_balanced_proxy returns when it falls off its last elif
NoStatement == [kind |-> "None", proxies |-> <<>>, text |-> <<>>]

\* ';'.join(proxies)
RECURSIVE join(_)
join(list) ==
    IF list = <<>> THEN <<>>
    ELSE IF Len(list) = 1 THEN <<Head(list)>>
    ELSE <<Head(list), ";">> \o join(Tail(list))

generate_balanced_proxy(list, mode) ==
    IF mode = "no"
    THEN [kind |-> "return", proxies |-> <<>>, text |-> join(list)]
    ELSE IF mode = "local_ip"
    THEN [kind |-> "local_ip_balance", proxies |-> list, text |-> <<>>]
    ELSE IF mode = "host"
    THEN [kind |-> "target_host_balance", proxies |-> list, text |-> <<>>]
    ELSE NoStatement

\* for (i = 0; i < l; i++) s += proxies[(k + i) % l]
RECURSIVE balance_loop(_, _, _, _)
balance_loop(s, list, k, j) ==
    IF j >= Len(list) THEN s
    ELSE balance_loop(Append(s, list[((k + j) % Len(list)) + 1]), list, k, j + 1)

local_ip_balance(list, myseg) == balance_loop(<<>>, list, myseg % Len(list), 0)

target_host_balance(list, hashed) ==
    balance_loop(<<>>, list, hashed % Len(list), 0)

\* the text the emitted statement returns to the host evaluator
evaluate(statement, k) ==
    IF statement.kind = "return" THEN statement.text
    ELSE IF statement.kind = "local_ip_balance"
    THEN local_ip_balance(statement.proxies, k)
    ELSE target_host_balance(statement.proxies, k)

(***************************************************************************)
(* pac_generator: hash_string of the emitted target_host_balance.  A host  *)
(* name is a sequence of UTF-16 code units; values are kept as the         *)
(* mathematical integers and compared with the 32-bit range.               *)
(***************************************************************************)
MinInt32 == -2147483647 - 1
MaxInt32 == 2147483647

\* hash << 5, before the conversion to a 32-bit integer
shift_left_5(h) == h * Pow2(5)

\* (hash << 5) - hash + c.charCodeAt(0)
hash_unmasked(h, code) == shift_left_5(h) - h + code

mask16_seventeen_bits(v) == BitAnd(BitAnd(BitAnd(v, v), 131071), 131071)

\* hash = hash & hash & 0xFFFF; hash &= 0xFFFF
mask16(v) == BitAnd(BitAnd(BitAnd(v, v), 65535), 65535)

\* the JavaScript remainder takes the sign of the dividend
js_rem(a, b) == IF a >= 0 THEN a % b ELSE 0 - ((0 - a) % b)

(***************************************************************************)
(* web_ui: FloraPacWebUI.  A text box holds lines, a line is a sequence of *)
(* tokens (blanks and words); two requests share one controller.           *)
(***************************************************************************)
Callers == {1, 2}

RECURSIVE lstrip(_)
lstrip(line) ==
    IF line # <<>> /\ Head(line) = " " THEN lstrip(Tail(line)) ELSE line

RECURSIVE rstrip(_)
rstrip(line) ==
    IF line # <<>> /\ line[Len(line)] = " "
    THEN rstrip(SubSeq(line, 1, Len(line) - 1)) ELSE line

strip_nothing(line) == line

\* p.strip()
strip(line) == rstrip(lstrip(line))

\* [p.strip() for p in proxy_strings.split('\n') if p.strip()]
parse_lines(text) ==
    LET kept == SelectSeq(text, LAMBDA p : strip(p) # <<>>)
    IN  [j \in 1 .. Len(kept) |-> strip(kept[j])]

\* os.path.join(os.getcwd(), "flora_pac.pac")
CwdPath == "flora_pac.pac"

\* the name tempfile.NamedTemporaryFile gives the file of one request
TempPath(c) == IF c = 1 THEN "tmp1.pac" ELSE "tmp2.pac"

Paths == {CwdPath} \cup { TempPath(c) : c \in Callers }

\* the text _generate_pac_content returns for the configuration of a
\* request; different configurations give different texts
PacContent(c) == IF c = 1 THEN "pac1" ELSE "pac2"

\* a request that has not started
IdleCall ==
    [pc |-> "idle", proxy_strings |-> <<>>, proxies |-> <<>>,
     fetched |-> FALSE, pac_content |-> "", output_path |-> "",
     result |-> <<"", "", "">>, file_matches |-> FALSE]

(***************************************************************************)
(* Inputs                                                                  *)
(***************************************************************************)
NetworkLists(n) == UNION { [1 .. k -> Networks] : k \in 0 .. n }

\* bypass entries: literal addresses (one of them out of range), CIDR texts
\* (some with host bits set or with a prefix length beyond the width) and
\* host names (one of them holding the text ' ||')
HostNames == { <<"localhost">>, <<"a", " ||", " b">> }

NoProxyEntries ==
    { AddressText(a) : a \in 0 .. Pow2(AddrBits) }
    \cup { NetworkText(a, p) : a \in Addresses, p \in 0 .. AddrBits + 1 }
    \cup HostNames

NoProxyLists == UNION { [1 .. k -> NoProxyEntries] : k \in 0 .. MaxNoProxy }

ProxyStrings ==
    { "SOCKS5 127.0.0.1:1984", "SOCKS5 127.0.0.1:1989", "PROXY 127.0.0.1:8080" }

ProxyLists == UNION { [1 .. k -> ProxyStrings] : k \in 1 .. MaxProxies }

BalanceModes == { "no", "local_ip", "host", "round_robin" }

\* feed lines: a country code, a start address (one of them with an octet
\* out of range) and a count (1, 256, 3, 0, 2^31 + 1 and 2^32)
FeedStarts == { <<1, 0, 1, 0>>, <<1, 0, 1, 1>>, <<0, 0, 0, 0>>, <<999, 0, 0, 0>> }

FeedCounts ==
    { <<1>>, <<1, 0, 0>>, <<3>>, <<0>>, <<8, 0, 0, 0, 0, 0, 0, 1>>,
      <<1, 0, 0, 0, 0, 0, 0, 0, 0>> }

FeedLines ==
    { [cc |-> "CN", starting_ip |-> a, num_ip |-> n] :
          a \in FeedStarts, n \in FeedCounts }
    \cup { [cc |-> "JP", starting_ip |-> <<1, 0, 16, 0>>, num_ip |-> <<1, 0, 0, 0>>] }

FeedLists == UNION { [1 .. k -> FeedLines] : k \in 0 .. MaxLines }

\* the proxy text box: at least one line (''.split('\n') is ['']), a line
\* being empty, blank, or one proxy with blanks around it
\* the code units a host name is drawn from: NUL, '.', 'a' and U+FFFF
CharCodes == { 0, 46, 97, 65535 }

TextLines == { <<>>, <<" ">>, <<" ", "SOCKS5 127.0.0.1:1984", " ">> }

ProxyTexts == UNION { [1 .. k -> TextLines] : k \in 1 .. MaxTextLines }

BlankPipeline ==
    /\ networks = <<>>
    /\ i = 0
    /\ pass = 1
    /\ first = <<>>
    /\ results = <<>>
    /\ min_prefixlen = AddrBits
    /\ max_prefixlen = 0
    /\ mask_step = 0
    /\ hash_base = 0
    /\ fragmented = <<>>
    /\ hashed_results = <<>>
    /\ table = <<>>
    /\ mvars = {}
    /\ ip = 0
    /\ found = FALSE
    /\ probes = 0
    /\ merged_net = None
    /\ iterations = 0

BlankRendering ==
    /\ no_proxy = <<>>
    /\ no_proxy_js = <<>>
    /\ proxies = <<>>
    /\ balance = "no"
    /\ proxy_js = NoStatement
    /\ key = 0
    /\ selected = <<>>
    /\ host = <<>>
    /\ hash = 0
    /\ unmasked = 0

BlankFeed ==
    /\ status_code = 200
    /\ data = <<>>
    /\ cndata = <<>>
    /\ item = 0
    /\ fetched = <<>>
    /\ raised = FALSE

BlankWeb ==
    /\ calls = [c \in Callers |-> IdleCall]
    /\ temp_files = <<>>
    /\ files = [p \in Paths |-> "absent"]
    /\ cwd_exists = TRUE
    /\ fetches = 0

Blank ==
    /\ BlankPipeline
    /\ BlankRendering
    /\ BlankFeed
    /\ BlankWeb

\* generate_pac: the feed is any list fetch_ip_data can return
Init ==
    /\ input \in NetworkLists(MaxFeedLen)
    /\ pc = "start"
    /\ Blank

\* merge_all on its own, on any list in any order
InitMerge ==
    /\ input \in NetworkLists(MaxLen)
    /\ pc = "start"
    /\ Blank

\* merge_nets, fregment_net and fregment_nets on their own
InitUnit ==
    /\ input \in NetworkLists(MaxUnitLen)
    /\ pc = "unit"
    /\ Blank

(***************************************************************************)
(* merge_all                                                               *)
(***************************************************************************)
MergeStart ==
    /\ pc = "start"
    /\ IF input = <<>>
       THEN /\ results' = <<>>
            /\ pc' = "merged"
            /\ UNCHANGED <<networks, i>>
       ELSE /\ networks' = sorted(input)
            /\ i' = 1
            /\ pc' = "loop"
            /\ UNCHANGED results
    /\ iterations' = 0
    /\ UNCHANGED <<input, pass, first, min_prefixlen, max_prefixlen, mask_step,
                   hash_base, fragmented, hashed_results, table, ip, found,
                   merged_net,
                   probes, mvars, side>>

\* one turn of the while loop; iterations counts the turns of this call
MergeIter ==
    /\ pc = "loop"
    /\ i < Len(networks)
    /\ iterations' = iterations + 1
    /\ IF i = 0
       THEN /\ i' = i + 1
            /\ UNCHANGED networks
       ELSE LET merged == merge_nets(networks[i], networks[i + 1])
            IN  IF merged = None
                THEN /\ i' = i + 1
                     /\ UNCHANGED networks
                ELSE /\ networks' = ReplacePair(networks, i, merged)
                     /\ i' = IF i > 1 THEN i - 1 ELSE i
    /\ UNCHANGED <<input, pc, pass, first, results, min_prefixlen, max_prefixlen,
                   mask_step, hash_base, fragmented, hashed_results, table, ip,
                   found, merged_net,
                   probes, mvars, side>>

MergeReturn ==
    /\ pc = "loop"
    /\ ~(i < Len(networks))
    /\ results' = networks
    /\ pc' = "merged"
    /\ UNCHANGED <<input, networks, i, pass, first, min_prefixlen, max_prefixlen,
                   mask_step, hash_base, fragmented, hashed_results, table, ip,
                   found, merged_net,
                   probes, mvars, iterations, side>>

\* merge_all(merge_all(N)): the result is handed to merge_all again
MergeAgain ==
    /\ pc = "merged"
    /\ pass = 1
    /\ first' = results
    /\ input' = results
    /\ pass' = 2
    /\ pc' = "start"
    /\ UNCHANGED <<networks, i, results, min_prefixlen, max_prefixlen, mask_step,
                   hash_base, fragmented, hashed_results, table, ip, found,
                   merged_net,
                   probes, mvars, iterations, side>>

(***************************************************************************)
(* generate_pac after merge_all                                            *)
(***************************************************************************)
CalculatePrefixRange ==
    /\ pc = "merged"
    /\ min_prefixlen' = calculate_prefix_range(results)[1]
    /\ max_prefixlen' = calculate_prefix_range(results)[2]
    /\ pc' = "ranged"
    /\ UNCHANGED <<input, networks, i, pass, first, results, mask_step, hash_base,
                   fragmented, hashed_results, table, ip, found, merged_net,
                   probes, mvars, iterations, side>>

FragmentAndHash ==
    /\ pc = "ranged"
    /\ \E step \in 1 .. MaxStep, base \in 1 .. MaxBase :
          /\ mask_step' = step
          /\ hash_base' = base
          /\ fragmented' = fregment_nets(results, step)
          /\ hashed_results' = hash_nets(fregment_nets(results, step), base)
    /\ pc' = "hashed"
    /\ UNCHANGED <<input, networks, i, pass, first, results, min_prefixlen,
                   max_prefixlen, table, ip, found, merged_net,
                   probes, mvars, iterations, side>>

GeneratePacContent ==
    /\ pc = "hashed"
    /\ mvars' = mask_variables(min_prefixlen, max_prefixlen, mask_step)
    /\ table' = emit_table(hashed_results)
    /\ pc' = "emitted"
    /\ UNCHANGED <<input, networks, i, pass, first, results, min_prefixlen,
                   max_prefixlen, mask_step, hash_base, fragmented,
                   hashed_results, ip, found, merged_net,
                   probes, iterations, side>>

\* the host evaluator runs FindProxyForURL of the emitted text: the table
\* literal is evaluated first, and a name in it that has no declaration ends
\* the call before lookup_ip(ip) is reached; otherwise lookup_ip(ip) runs
LookupIp ==
    /\ pc = "emitted"
    /\ \E a \in Addresses :
          /\ ip' = a
          /\ found' = /\ table_evaluates(table, mvars)
                      /\ lookup_ip(a, table, hash_base, mask_step,
                                   min_prefixlen, max_prefixlen)
          /\ probes' = IF table_evaluates(table, mvars)
                       THEN lookup_probes(a, min_prefixlen, table, hash_base,
                                          mask_step, max_prefixlen)
                       ELSE 0
    /\ pc' = "looked"
    /\ UNCHANGED <<input, networks, i, pass, first, results, min_prefixlen,
                   max_prefixlen, mask_step, hash_base, fragmented,
                   hashed_results, table, mvars, merged_net,
                   iterations, side>>

(***************************************************************************)
(* The functions on their own                                              *)
(***************************************************************************)
MergeNets ==
    /\ pc = "unit"
    /\ Len(input) = 2
    /\ merged_net' = merge_nets(input[1], input[2])
    /\ pc' = "paired"
    /\ UNCHANGED <<input, networks, i, pass, first, results, min_prefixlen,
                   max_prefixlen, mask_step, hash_base, fragmented,
                   hashed_results, table, ip, found,
                   probes, mvars, iterations, side>>

FregmentNets ==
    /\ pc = "unit"
    /\ \E step \in 1 .. MaxStep :
          /\ mask_step' = step
          /\ fragmented' = fregment_nets(input, step)
    /\ pc' = "fragmented"
    /\ UNCHANGED <<input, networks, i, pass, first, results, min_prefixlen,
                   max_prefixlen, hash_base, hashed_results, table, ip, found,
                   merged_net,
                   probes, mvars, iterations, side>>

Next ==
    \/ MergeStart
    \/ MergeIter
    \/ MergeReturn
    \/ CalculatePrefixRange
    \/ FragmentAndHash
    \/ GeneratePacContent
    \/ LookupIp

Spec == Init /\ [][Next]_vars

NextMerge ==
    \/ MergeStart
    \/ MergeIter
    \/ MergeReturn
    \/ MergeAgain

SpecMerge == InitMerge /\ [][NextMerge]_vars

NextUnit ==
    \/ MergeNets
    \/ FregmentNets

SpecUnit == InitUnit /\ [][NextUnit]_vars

(***************************************************************************)
(* The two renderers on their own, and the host evaluator running the      *)
(* statement generate_balanced_proxy emitted                               *)
(***************************************************************************)
InitRender ==
    /\ input = <<>>
    /\ pc = "render"
    /\ Blank

GenerateNoProxy ==
    /\ pc = "render"
    /\ \E entries \in NoProxyLists :
          /\ no_proxy' = entries
          /\ no_proxy_js' = generate_no_proxy(entries)
    /\ pc' = "no_proxy_done"
    /\ UNCHANGED <<pipeline, feed, web, hashing, proxies, balance, proxy_js, key,
                   selected>>

GenerateBalancedProxy ==
    /\ pc = "render"
    /\ \E list \in ProxyLists, mode \in BalanceModes :
          /\ proxies' = list
          /\ balance' = mode
          /\ proxy_js' = generate_balanced_proxy(list, mode)
    /\ pc' = "proxy_done"
    /\ UNCHANGED <<pipeline, feed, web, hashing, no_proxy, no_proxy_js, key,
                   selected>>

\* key is the last octet of myIpAddress() or hash_string(host)
FindProxy ==
    /\ pc = "proxy_done"
    /\ proxy_js # NoStatement
    /\ \E k \in 0 .. MaxKey :
          /\ key' = k
          /\ selected' = evaluate(proxy_js, k)
    /\ pc' = "selected"
    /\ UNCHANGED <<pipeline, feed, web, hashing, no_proxy, no_proxy_js, proxies,
                   balance, proxy_js>>

NextRender ==
    \/ GenerateNoProxy
    \/ GenerateBalancedProxy
    \/ FindProxy

SpecRender == InitRender /\ [][NextRender]_vars

(***************************************************************************)
(* target_host_balance of the emitted text, one character at a time        *)
(***************************************************************************)
InitHash ==
    /\ input = <<>>
    /\ pc = "hash"
    /\ BlankPipeline
    /\ BlankFeed
    /\ BlankWeb
    /\ no_proxy = <<>>
    /\ no_proxy_js = <<>>
    /\ proxies \in ProxyLists
    /\ balance = "host"
    /\ proxy_js = generate_balanced_proxy(proxies, "host")
    /\ key = 0
    /\ selected = <<>>
    /\ host = <<>>
    /\ hash = 0
    /\ unmasked = 0

\* one turn of the for loop of hash_string
HashChar ==
    /\ pc = "hash"
    /\ Len(host) < MaxHostLen
    /\ \E code \in CharCodes :
          /\ host' = Append(host, code)
          /\ unmasked' = hash_unmasked(hash, code)
          /\ hash' = mask16(hash_unmasked(hash, code))
    /\ UNCHANGED <<pc, pipeline, feed, web, no_proxy, no_proxy_js, proxies,
                   balance, proxy_js, key, selected>>

\* k = hash_string(host) % l and the loop that joins the proxies from k on
TargetHostBalance ==
    /\ pc = "hash"
    /\ key' = js_rem(hash, Len(proxy_js.proxies))
    /\ selected' = evaluate(proxy_js, hash)
    /\ pc' = "selected"
    /\ UNCHANGED <<pipeline, feed, web, hashing, no_proxy, no_proxy_js, proxies,
                   balance, proxy_js>>

NextHash ==
    \/ HashChar
    \/ TargetHostBalance

SpecHash == InitHash /\ [][NextHash]_vars

(***************************************************************************)
(* fetch_ip_data                                                           *)
(***************************************************************************)
InitFeed ==
    /\ input = <<>>
    /\ pc = "fetch"
    /\ BlankPipeline
    /\ BlankRendering
    /\ status_code \in {200, 404}
    /\ data \in FeedLists
    /\ cndata = <<>>
    /\ item = 0
    /\ fetched = <<>>
    /\ raised = FALSE
    /\ BlankWeb

\* if response.status != 200: raise Exception
RaiseForStatus ==
    /\ pc = "fetch"
    /\ status_code # 200
    /\ raised' = TRUE
    /\ pc' = "raised"
    /\ UNCHANGED <<pipeline, rendering, web, status_code, data, cndata, item, fetched>>

FindAll ==
    /\ pc = "fetch"
    /\ status_code = 200
    /\ cndata' = findall(data)
    /\ item' = 1
    /\ pc' = "items"
    /\ UNCHANGED <<pipeline, rendering, web, status_code, data, fetched, raised>>

\* one iteration of "for item in cndata"
ParseItem ==
    /\ pc = "items"
    /\ item <= Len(cndata)
    /\ fetched' = IF parse_item(cndata[item]) = None THEN fetched
                  ELSE Append(fetched, parse_item(cndata[item]))
    /\ item' = item + 1
    /\ UNCHANGED <<pc, pipeline, rendering, web, status_code, data, cndata, raised>>

FetchReturn ==
    /\ pc = "items"
    /\ item > Len(cndata)
    /\ pc' = "returned"
    /\ UNCHANGED <<pipeline, rendering, web, feed>>

NextFeed ==
    \/ RaiseForStatus
    \/ FindAll
    \/ ParseItem
    \/ FetchReturn

SpecFeed == InitFeed /\ [][NextFeed]_vars

(***************************************************************************)
(* FloraPacWebUI.generate_pac_file, called by two requests on one          *)
(* controller, and FloraPacWebUI.cleanup when the server stops             *)
(***************************************************************************)
InitWeb ==
    /\ input = <<>>
    /\ pc = "web"
    /\ BlankPipeline
    /\ BlankRendering
    /\ BlankFeed
    /\ calls = [c \in Callers |-> IdleCall]
    /\ temp_files = <<>>
    /\ files = [p \in Paths |-> "absent"]
    /\ cwd_exists \in BOOLEAN
    /\ fetches = 0

Call(c) ==
    /\ calls[c].pc = "idle"
    /\ \E text \in ProxyTexts :
          calls' = [calls EXCEPT ![c].pc = "parse", ![c].proxy_strings = text]
    /\ UNCHANGED <<pc, pipeline, rendering, feed, temp_files, files,
                   cwd_exists, fetches>>

\* proxies = [...]; if not proxies: return "Error: ...", "", ""
ParseProxies(c) ==
    /\ calls[c].pc = "parse"
    /\ LET list == parse_lines(calls[c].proxy_strings)
       IN  IF list = <<>>
           THEN calls' = [calls EXCEPT
                    ![c].pc = "returned",
                    ![c].result =
                        <<"Error: At least one proxy must be specified", "", "">>]
           ELSE calls' = [calls EXCEPT ![c].pc = "fetch", ![c].proxies = list]
    /\ UNCHANGED <<pc, pipeline, rendering, feed, temp_files, files,
                   cwd_exists, fetches>>

\* china_nets = fetch_ip_data(): returns or raises
FetchIpData(c) ==
    /\ calls[c].pc = "fetch"
    /\ fetches' = fetches + 1
    /\ \E ok \in BOOLEAN :
          calls' = [calls EXCEPT ![c].fetched = TRUE,
                                 ![c].pc = IF ok THEN "build" ELSE "except"]
    /\ UNCHANGED <<pc, pipeline, rendering, feed, temp_files, files, cwd_exists>>

\* merge_all, fregment_nets, hash_nets, calculate_prefix_range and
\* _generate_pac_content: each returns or raises
BuildPac(c) ==
    /\ calls[c].pc = "build"
    /\ \E ok \in BOOLEAN :
          calls' = [calls EXCEPT
              ![c].pac_content = IF ok THEN PacContent(c) ELSE "",
              ![c].pc = IF ok THEN "write" ELSE "except"]
    /\ UNCHANGED <<pc, pipeline, rendering, feed, temp_files, files,
                   cwd_exists, fetches>>

\* the inner try: os.getcwd(), os.makedirs and open(output_path, 'w')
\* succeed and the file is written, or one of them raises
WriteOutput(c) ==
    /\ calls[c].pc = "write"
    /\ \E ok \in BOOLEAN :
          IF ok /\ cwd_exists
          THEN /\ files' = [files EXCEPT ![CwdPath] = calls[c].pac_content]
               /\ calls' = [calls EXCEPT ![c].output_path = CwdPath,
                                          ![c].pc = "stats"]
          ELSE /\ calls' = [calls EXCEPT ![c].pc = "temp"]
               /\ UNCHANGED files
    /\ UNCHANGED <<pc, pipeline, rendering, feed, temp_files, cwd_exists, fetches>>

\* the inner except: the with block of tempfile.NamedTemporaryFile.  The
\* file cannot be created; or f.write raises; or everything up to
\* temp_files.append runs and closing the file raises; or nothing raises
WriteTemp(c) ==
    /\ calls[c].pc = "temp"
    /\ \E outcome \in {"create raises", "write raises", "close raises", "written"} :
          IF outcome = "create raises"
          THEN /\ calls' = [calls EXCEPT ![c].pc = "except"]
               /\ UNCHANGED <<files, temp_files>>
          ELSE IF outcome = "write raises"
          THEN /\ files' = [files EXCEPT ![TempPath(c)] = "partial"]
               /\ calls' = [calls EXCEPT ![c].pc = "except"]
               /\ UNCHANGED temp_files
          ELSE IF outcome = "close raises"
          THEN /\ files' = [files EXCEPT ![TempPath(c)] = "partial"]
               /\ temp_files' = Append(temp_files, TempPath(c))
               /\ calls' = [calls EXCEPT ![c].output_path = TempPath(c),
                                          ![c].pc = "except"]
          ELSE /\ files' = [files EXCEPT ![TempPath(c)] = calls[c].pac_content]
               /\ temp_files' = Append(temp_files, TempPath(c))
               /\ calls' = [calls EXCEPT ![c].output_path = TempPath(c),
                                          ![c].pc = "stats"]
    /\ UNCHANGED <<pc, pipeline, rendering, feed, cwd_exists, fetches>>

\* stats = ...; return stats, pac_content, output_path
ReturnStats(c) ==
    /\ calls[c].pc = "stats"
    /\ calls' = [calls EXCEPT
          ![c].pc = "returned",
          ![c].result = <<"Generated PAC file successfully!",
                          calls[c].pac_content, calls[c].output_path>>,
          ![c].file_matches = (files[calls[c].output_path] = calls[c].pac_content)]
    /\ UNCHANGED <<pc, pipeline, rendering, feed, temp_files, files,
                   cwd_exists, fetches>>

\* except Exception: the message is built with os.getcwd(), which raises
\* FileNotFoundError when the current directory no longer exists
HandleException(c) ==
    /\ calls[c].pc = "except"
    /\ IF cwd_exists
       THEN calls' = [calls EXCEPT
                ![c].pc = "returned",
                ![c].result = <<"Error generating PAC file:", "", "">>]
       ELSE calls' = [calls EXCEPT ![c].pc = "raised"]
    /\ UNCHANGED <<pc, pipeline, rendering, feed, temp_files, files,
                   cwd_exists, fetches>>

\* cleanup(), called when the server has stopped
Cleanup ==
    /\ \A c \in Callers : calls[c].pc \in {"returned", "raised"}
    /\ files' = [p \in Paths |->
                    IF \E j \in 1 .. Len(temp_files) : temp_files[j] = p
                    THEN "absent" ELSE files[p]]
    /\ temp_files' = <<>>
    /\ UNCHANGED <<pc, pipeline, rendering, feed, calls, cwd_exists, fetches>>

NextWeb ==
    \/ \E c \in Callers :
          \/ Call(c)
          \/ ParseProxies(c)
          \/ FetchIpData(c)
          \/ BuildPac(c)
          \/ WriteOutput(c)
          \/ WriteTemp(c)
          \/ ReturnStats(c)
          \/ HandleException(c)
    \/ Cleanup

SpecWeb == InitWeb /\ [][NextWeb]_vars

(***************************************************************************)
(* Address sets                                                            *)
(***************************************************************************)
AddressesOf(net) == net.network_address .. broadcast_address(net)

Covered(nets) == UNION { AddressesOf(nets[k]) : k \in 1 .. Len(nets) }

PairwiseDisjoint(nets) ==
    \A j, k \in 1 .. Len(nets) :
        j # k => AddressesOf(nets[j]) \cap AddressesOf(nets[k]) = {}

IsSorted(nets) ==
    \A k \in 1 .. (Len(nets) - 1) : ~NetLess(nets[k + 1], nets[k])

TypeOK ==
    /\ input \in Seq(Networks)
    /\ networks \in Seq(Networks)
    /\ pc \in {"start", "loop", "merged", "ranged", "hashed", "emitted",
               "looked", "unit", "paired", "fragmented",
               "render", "no_proxy_done", "proxy_done", "selected",
               "fetch", "items", "returned", "raised", "web", "hash"}

(***************************************************************************)
(* Properties                                                              *)
(***************************************************************************)
InInput(a) == \E k \in 1 .. Len(input) : a \in AddressesOf(input[k])

\* C1: matcher soundness: once the table is built from the feed and
\* lookup_ip has run on an address contained in some network of the feed,
\* the lookup has returned true.
C1_MatcherSoundness ==
    (pc = "looked" /\ InInput(ip)) => found = TRUE

\* C2: coverage preservation: at every point of merge_all's loop and at its
\* return, the list it holds covers exactly the addresses of its input, so
\* no merge step gains or loses an address.
C2_CoveragePreserved ==
    /\ pc = "loop" => Covered(networks) = Covered(input)
    /\ pc = "merged" => Covered(results) = Covered(input)

C2_Witness ==
    /\ pc = "merged"
    /\ pass = 1
    /\ Len(input) = 3
    /\ Len(results) = 1

\* C3: merge idempotence: merge_all applied to the result of merge_all
\* returns that result, same elements in the same order.
C3_MergeIdempotent ==
    (pc = "merged" /\ pass = 2) => results = first

\* C4: the list returned by merge_all is sorted ascending by
\* (base address, prefix length).
C4_ResultSorted ==
    pc = "merged" => IsSorted(results)

\* C5: merge-closure: no two elements of merge_all's result, at any two
\* positions, are the low and high halves of one parent block, i.e.
\* merge_nets of them is None.
C5_MergeClosed ==
    pc = "merged" =>
        \A j, k \in 1 .. Len(results) :
            j # k => merge_nets(results[j], results[k]) = None

\* C6: the normalizer deduplicates: merge_all's result holds no two equal
\* entries and no two entries whose address ranges overlap.
C6_NoDuplicateNoOverlap ==
    pc = "merged" =>
        /\ \A j, k \in 1 .. Len(results) : j # k => results[j] # results[k]
        /\ PairwiseDisjoint(results)

\* The low and high halves of exactly one parent block of prefix length p-1
IsHalvesOfParent(n1, n2) ==
    /\ n1.prefixlen = n2.prefixlen
    /\ n1.prefixlen >= 1
    /\ n1.network_address % (2 * num_addresses(n1)) = 0
    /\ n2.network_address = n1.network_address + num_addresses(n1)

\* C7: merge_nets(n1, n2) returns the parent network of prefix length p-1
\* exactly when n1 and n2 both have prefix length p and are the low and the
\* high half of that parent, in this order; in every other case it returns
\* None.
C7_MergeNetsIffHalves ==
    pc = "paired" =>
        IF IsHalvesOfParent(input[1], input[2])
        THEN merged_net = IPv4Network(input[1].network_address,
                                      input[1].prefixlen - 1)
        ELSE merged_net = None

PerNetLossless ==
    Len(input) = 1 =>
        /\ PairwiseDisjoint(fragmented)
        /\ Covered(fragmented) = AddressesOf(input[1])

\* C8 as stated: the fragments of one network are pairwise disjoint and
\* cover exactly its addresses, and the same (pairwise disjoint, covering
\* exactly the union of the inputs) holds for fregment_nets on any list.
C8_Original ==
    pc = "fragmented" =>
        /\ PerNetLossless
        /\ PairwiseDisjoint(fragmented)
        /\ Covered(fragmented) = Covered(input)

\* C8 (amended): the fragments of one network are pairwise disjoint and
\* cover exactly its addresses; the fragments fregment_nets returns cover
\* exactly the union of its inputs, and they are pairwise disjoint whenever
\* the input networks are pairwise disjoint.
C8_FragmentationLossless ==
    pc = "fragmented" =>
        /\ PerNetLossless
        /\ Covered(fragmented) = Covered(input)
        /\ PairwiseDisjoint(input) => PairwiseDisjoint(fragmented)

C8_Witness ==
    /\ pc = "fragmented"
    /\ Len(input) = 2
    /\ PairwiseDisjoint(input)
    /\ Len(fragmented) >= 4

IsMultiple(n, step) == n % step = 0

FourSubnets(net) ==
    [k \in 1 .. 4 |->
        IPv4Network(net.network_address + (k - 1) * (num_addresses(net) \div 4),
                    net.prefixlen + 2)]

AlignedAtStepTwo ==
    /\ pc = "fragmented"
    /\ Len(input) = 1
    /\ mask_step = 2
    /\ IsMultiple(input[1].prefixlen, 2)
    /\ input[1].prefixlen + 2 <= AddrBits

TargetOf(net, step) == ((net.prefixlen - 1) \div step) * step + step

\* C12: fragmentation impossibility is not an error: a network whose target
\* prefix length exceeds the address width comes back as the list [n], and
\* fregment_nets goes on with the networks after it, whose fragments follow
\* it and cover exactly their addresses.
C12_ImpossibleReturnsNet ==
    pc = "fragmented" =>
        /\ (Len(input) = 1 /\ TargetOf(input[1], mask_step) > AddrBits)
              => fragmented = input
        /\ (Len(input) >= 2 /\ TargetOf(input[1], mask_step) > AddrBits)
              => /\ fragmented[1] = input[1]
                 /\ Len(fragmented) >= Len(input)
                 /\ Covered(Tail(fragmented)) = Covered(Tail(input))

C12_Witness ==
    /\ pc = "fragmented"
    /\ Len(input) = 2
    /\ input[1].prefixlen < AddrBits
    /\ TargetOf(input[1], mask_step) > AddrBits
    /\ fragmented[1] = input[1]
    /\ Len(fragmented) = 2

RECURSIVE SumLen(_)
SumLen(buckets) ==
    IF buckets = <<>> THEN 0 ELSE Len(Head(buckets)) + SumLen(Tail(buckets))

\* the subsequence of nets, in order, whose base address mod b is k
BucketOf(nets, b, k) ==
    SelectSeq(nets, LAMBDA n : n.network_address % b = k)

\* C13: hash_nets(F, b) returns exactly b buckets, bucket k being the
\* subsequence of F, in input order, of the networks whose base address
\* mod b is k; the bucket sizes sum to len(F).
C13_Partition ==
    pc = "hashed" =>
        /\ Len(hashed_results) = hash_base
        /\ \A k \in 1 .. hash_base :
              hashed_results[k] = BucketOf(fragmented, hash_base, k - 1)
        /\ SumLen(hashed_results) = Len(fragmented)

C13_Witness ==
    /\ pc = "hashed"
    /\ hash_base >= 2
    /\ \E j, k \in 1 .. hash_base :
          /\ j # k
          /\ Len(hashed_results[j]) >= 2
          /\ hashed_results[j][1] # hashed_results[j][2]
          /\ Len(hashed_results[k]) >= 1

AfterMerge == pc \in {"merged", "ranged", "hashed", "emitted", "looked"}
AfterRange == pc \in {"ranged", "hashed", "emitted", "looked"}
AfterHash == pc \in {"hashed", "emitted", "looked"}

\* C14: an empty feed goes through every stage as an empty result:
\* merge_all returns [], calculate_prefix_range returns (width, 0),
\* fregment_nets returns [], hash_nets returns bucketCount empty buckets,
\* and lookup_ip reads no bucket and returns false for every address.
C14_EmptyPropagates ==
    input = <<>> =>
        /\ AfterMerge => results = <<>>
        /\ AfterRange => (min_prefixlen = AddrBits /\ max_prefixlen = 0)
        /\ AfterHash =>
              /\ fragmented = <<>>
              /\ Len(hashed_results) = hash_base
              /\ \A k \in 1 .. hash_base : hashed_results[k] = <<>>
        /\ pc = "looked" => (probes = 0 /\ found = FALSE)

C14_Witness ==
    /\ input = <<>>
    /\ pc = "looked"
    /\ hash_base = MaxBase
    /\ ip = 1
    /\ found = FALSE

(***************************************************************************)
(* C15                                                                     *)
(***************************************************************************)
\* the prefix lengths the while loop of lookup_ip can visit
VisitedLengths ==
    { L \in min_prefixlen .. max_prefixlen : (L - min_prefixlen) % mask_step = 0 }

\* the base address of the /L network containing a
BaseOf(a, L) == (a \div Pow2(AddrBits - L)) * Pow2(AddrBits - L)

\* C15: storage and lookup use the same hash: for every address a and every
\* prefix length L the lookup loop visits, hash_masked_ip(a, L, bucketCount)
\* equals hash_address of the base address of the /L network containing a.
C15_SameHash ==
    pc \in {"emitted", "looked"} =>
        \A a \in Addresses : \A L \in VisitedLengths :
            hash_masked_ip(a, L, hash_base) = hash_address(BaseOf(a, L), hash_base)

(***************************************************************************)
(* C17                                                                     *)
(***************************************************************************)
\* what the embedded code decodes from one bucket of the emitted table
DecodedBucket(bucket) == [j \in 1 .. Len(bucket) |-> rebuild_net(bucket[j])]

\* the (base address, netmask) pairs of one bucket of hash_nets
StoredBucket(bucket) ==
    [j \in 1 .. Len(bucket) |->
        <<bucket[j].network_address, netmask(bucket[j])>>]

\* C17: the emitted table has one entry per bucket in index order, an empty
\* bucket as the empty marker and a non-empty one as its networks in bucket
\* order, each as the pair [base >> (width - p), p]; shifting the first
\* component left by (width - p) gives back the base address, and decoding
\* the emitted table yields the buckets returned by hash_nets.
C17_TableRoundTrip ==
    pc = "emitted" =>
        /\ Len(table) = hash_base
        /\ \A k \in 1 .. hash_base :
              /\ Len(table[k]) = Len(hashed_results[k])
              /\ \A j \in 1 .. Len(table[k]) :
                    LET net == hashed_results[k][j]
                        p   == net.prefixlen
                    IN  /\ table[k][j][1] = net.network_address \div Pow2(AddrBits - p)
                        /\ table[k][j][1] * Pow2(AddrBits - p) = net.network_address
        /\ table_evaluates(table, mvars)
        /\ \A k \in 1 .. hash_base :
              DecodedBucket(table[k]) = StoredBucket(hashed_results[k])

(***************************************************************************)
(* C18                                                                     *)
(***************************************************************************)
\* the number of tokens of text that are t
RECURSIVE Occurrences(_, _)
Occurrences(text, t) ==
    IF text = <<>> THEN 0
    ELSE (IF Head(text) = t THEN 1 ELSE 0) + Occurrences(Tail(text), t)

\* the entry is the text of a literal address
IsAddressEntry(n) == n \in { AddressText(a) : a \in Addresses }

\* the entry is the CIDR text of a network
IsNetworkEntry(n) ==
    n \in { NetworkText(net.network_address, net.prefixlen) : net \in Networks }

\* the network a CIDR entry denotes
NetworkOfEntry(n) ==
    CHOOSE net \in Networks : n = NetworkText(net.network_address, net.prefixlen)

\* the condition the claim assigns to one entry
ConditionFor(n) ==
    IF IsAddressEntry(n)
    THEN <<" ip == '">> \o n \o <<"'", " ||">>
    ELSE IF IsNetworkEntry(n)
    THEN <<" isInNet(ip, '", ToString(NetworkOfEntry(n).network_address),
           "', '", ToString(netmask(NetworkOfEntry(n))), "')", " ||">>
    ELSE <<" host == '">> \o n \o <<"'", " ||">>

RECURSIVE ConditionsFor(_)
ConditionsFor(entries) ==
    IF entries = <<>> THEN <<>>
    ELSE ConditionFor(Head(entries)) \o ConditionsFor(Tail(entries))

\* the occurrences of ' ||' inside the entries themselves
RECURSIVE OccurrencesInEntries(_)
OccurrencesInEntries(entries) ==
    IF entries = <<>> THEN 0
    ELSE Occurrences(Head(entries), " ||") + OccurrencesInEntries(Tail(entries))

OneConditionPerEntry ==
    /\ no_proxy_js = ConditionsFor(no_proxy)
    /\ no_proxy = <<>> => no_proxy_js = <<>>

RECURSIVE SplitDirectives(_)
SplitDirectives(text) ==
    IF text = <<>> THEN << <<>> >>
    ELSE LET rest == SplitDirectives(Tail(text))
         IN  IF Head(text) = ";" THEN << <<>> >> \o rest
             ELSE << <<Head(text)>> \o Head(rest) >> \o Tail(rest)

\* proxies rotated to start at index k, one directive each
Rotated(list, k) ==
    [j \in 1 .. Len(list) |-> << list[((k + j - 1) % Len(list)) + 1] >>]

\* C19: in both balancing modes the emitted logic computes k = key mod l and
\* returns proxies[k], proxies[(k+1) mod l], ..., proxies[(k+l-1) mod l],
\* every configured proxy once, as a list the host evaluator parses as
\* separate directives.
C19_RotatedDirectives ==
    (pc = "selected" /\ balance \in {"local_ip", "host"}) =>
        SplitDirectives(selected) = Rotated(proxies, key % Len(proxies))

(***************************************************************************)
(* C20                                                                     *)
(***************************************************************************)
IsPowerOfTwo(n) ==
    LET m == StripZeros(n)
    IN  /\ Head(m) \in {1, 2, 4, 8}
        /\ \A j \in 2 .. Len(m) : m[j] = 0

Log2(n) ==
    LET m == StripZeros(n)
    IN  4 * (Len(m) - 1)
          + (IF Head(m) = 1 THEN 0 ELSE IF Head(m) = 2 THEN 1
             ELSE IF Head(m) = 4 THEN 2 ELSE 3)

\* a CN IPv4 record with a parseable start address, a power-of-two count
\* and a start aligned to that count
WellFormed(line) ==
    /\ line.cc = "CN"
    /\ \A j \in 1 .. 4 : line.starting_ip[j] <= 255
    /\ IsPowerOfTwo(line.num_ip)
    /\ Log2(line.num_ip) <= 32
    /\ \A j \in (32 - Log2(line.num_ip) + 1) .. 32 :
           Bits32(line.starting_ip)[j] = 0

RECURSIVE NetworksOfFeed(_)
NetworksOfFeed(lines) ==
    IF lines = <<>> THEN <<>>
    ELSE (IF WellFormed(Head(lines))
          THEN <<IPv4Network(Head(lines).starting_ip,
                             32 - Log2(Head(lines).num_ip))>>
          ELSE <<>>) \o NetworksOfFeed(Tail(lines))

\* C20: fetch_ip_data returns, in feed order, exactly one network per
\* well-formed CN IPv4 record (prefix length 32 - log2(count)) and nothing
\* for a record whose address is unparseable, whose count is not a power of
\* two or whose start is misaligned, whatever records precede it; a non-200
\* response raises instead of returning a list.
C20_SkipsMalformed ==
    /\ pc = "returned" => (status_code = 200 /\ fetched = NetworksOfFeed(data))
    /\ status_code # 200 => (pc \in {"fetch", "raised"} /\ fetched = <<>>)
    /\ pc = "raised" => raised

(***************************************************************************)
(* C21                                                                     *)
(***************************************************************************)
InTempFiles(path) == \E j \in 1 .. Len(temp_files) : temp_files[j] = path

\* the request got past the proxy check and did not end in success
Failed(c) ==
    /\ calls[c].pc \in {"returned", "raised"}
    /\ calls[c].proxies # <<>>
    /\ calls[c].result[1] # "Generated PAC file successfully!"

\* C21: generate_pac_file never raises: when a stage fails (feed, merge,
\* fragment, hash, rendering, or both file writes) it returns the status
\* 'Error generating PAC file:' with empty content and path, and
\* temp_files holds nothing the call added.
C21_NeverRaises ==
    \A c \in Callers :
        /\ calls[c].pc # "raised"
        /\ Failed(c) =>
              /\ calls[c].result = <<"Error generating PAC file:", "", "">>
              /\ ~InTempFiles(TempPath(c))

(***************************************************************************)
(* C22                                                                     *)
(***************************************************************************)
NoNonBlankLine(text) ==
    \A j \in 1 .. Len(text) : \A k \in 1 .. Len(text[j]) : text[j][k] = " "

\* C22: when the proxy text has no non-blank line, generate_pac_file
\* returns ('Error: At least one proxy must be specified', '', '') before
\* any other step: it fetches no feed, writes no file and leaves temp_files
\* alone.
C22_NoProxyReturnsFirst ==
    /\ fetches = Cardinality({ c \in Callers : calls[c].fetched })
    /\ \A c \in Callers :
          (calls[c].pc \notin {"idle", "parse"}
              /\ NoNonBlankLine(calls[c].proxy_strings)) =>
              /\ calls[c].pc = "returned"
              /\ calls[c].result =
                    <<"Error: At least one proxy must be specified", "", "">>
              /\ ~calls[c].fetched
              /\ calls[c].output_path = ""
              /\ files[TempPath(c)] = "absent"
              /\ ~InTempFiles(TempPath(c))

C22_Witness ==
    /\ calls[1].pc = "returned"
    /\ calls[1].proxy_strings = << <<" ">>, <<>> >>
    /\ calls[1].result[1] = "Error: At least one proxy must be specified"
    /\ calls[2].pc = "returned"
    /\ calls[2].result[1] = "Generated PAC file successfully!"
    /\ fetches = 1


(***************************************************************************)
(* C23  Fragment prefix invariant                                          *)
(***************************************************************************)
RoundUp(p, step) == ((p - 1) \div step) * step + step

Stored ==
    UNION { { hashed_results[k][j] : j \in 1 .. Len(hashed_results[k]) } :
            k \in 1 .. Len(hashed_results) }

PrefixInLattice(net) ==
    /\ net.prefixlen > 0
    /\ net.prefixlen % mask_step = 0
    /\ RoundUp(min_prefixlen, mask_step) <= net.prefixlen
    /\ net.prefixlen <= RoundUp(max_prefixlen, mask_step)

\* a merged network the fragmenter stores as it received it
StoredUnchanged(net) ==
    /\ \E k \in 1 .. Len(results) : results[k] = net
    /\ \/ net.prefixlen = 0
       \/ RoundUp(net.prefixlen, mask_step) > AddrBits

\* C23 as stated: every network stored in the buckets has a prefix length
\* that is a positive multiple of the step and lies between the smallest and
\* the largest merged prefix length, both rounded up to a multiple of the step.
C23_Original ==
    pc \in {"hashed", "emitted", "looked"} =>
        \A net \in Stored : PrefixInLattice(net)

\* C23 amended: every network stored in the buckets either has such a prefix
\* length, or is a merged network stored unchanged because its prefix length
\* is 0 or its rounded-up prefix length exceeds the address width.
C23_PrefixInLatticeOrUnchanged ==
    pc \in {"hashed", "emitted", "looked"} =>
        \A net \in Stored : PrefixInLattice(net) \/ StoredUnchanged(net)

C23_Witness ==
    /\ pc = "hashed"
    /\ \E net \in Stored : StoredUnchanged(net) /\ ~PrefixInLattice(net)
    /\ \E net \in Stored :
          /\ PrefixInLattice(net)
          /\ \A k \in 1 .. Len(results) : results[k] # net


(***************************************************************************)
(* C24  the host hash stays in range                                       *)
(***************************************************************************)
\* C24: while hash_string runs, the shifted value and the value before
\* masking lie in the signed 32-bit range and the hash after every character
\* is in [0, 65535]; the index target_host_balance selects is in
\* [0, proxyCount) and the proxies are joined from that index on.
C24_HashInRange ==
    /\ MinInt32 <= unmasked /\ unmasked <= MaxInt32
    /\ MinInt32 <= shift_left_5(hash) /\ shift_left_5(hash) <= MaxInt32
    /\ 0 <= hash /\ hash <= 65535
    /\ pc = "selected" /\ proxy_js.kind = "target_host_balance" /\ host # <<>> =>
          /\ 0 <= key /\ key < Len(proxies)
          /\ selected = [j \in 1 .. Len(proxies) |->
                            proxies[((key + j - 1) % Len(proxies)) + 1]]

\* the largest intermediate value: U+FFFF hashed after a hash of 65535
C24_Witness ==
    /\ pc = "selected"
    /\ Len(host) >= 2
    /\ host[Len(host)] = 65535
    /\ unmasked = 31 * 65535 + 65535
    /\ hash = 65504
    /\ Len(proxies) = 2
    /\ key = 0


(***************************************************************************)
(* C25  merge_all terminates                                               *)
(***************************************************************************)
CursorInRange ==
    pc = "loop" =>
        /\ 1 <= i /\ i <= Len(networks)
        /\ iterations + (2 * Len(networks) - i) <= 2 * Len(input) - 1

IterationsBounded ==
    pc \in {"loop", "merged"} => iterations <= 2 * Len(input)

AdvanceOrShorten ==
    (pc = "loop" /\ pc' = "loop") =>
        \/ /\ i' = i + 1
           /\ networks' = networks
        \/ /\ Len(networks') = Len(networks) - 1
           /\ i - 1 <= i' /\ i' <= i

\* C25: while merge_all loops the cursor satisfies 1 <= i <= len(networks),
\* so the i == 0 branch is never taken; every turn either advances i by one
\* and leaves the list alone or shortens the list by exactly one element and
\* moves i back by at most one; no call runs more than 2 * len(input) turns,
\* and the measure 2 * len(networks) - i falls on every turn, so the loop ends.
C25_MergeAllTerminates ==
    /\ [](CursorInRange /\ IterationsBounded)
    /\ [][AdvanceOrShorten]_vars

\* a call on three networks that advanced once and merged twice
C25_Witness ==
    /\ pc = "merged"
    /\ Len(input) = 3
    /\ Len(results) = 1
    /\ iterations = 3
    /\ i = 1


(***************************************************************************)
(* C26  no false positives                                                 *)
(***************************************************************************)
\* C26: when the generated lookup, probing the buckets from the smallest to
\* the largest prefix length in increments of the step, returns true for an
\* address, that address lies in some network of the input list.
C26_NoFalsePositive ==
    (pc = "looked" /\ found) => ip \in Covered(input)

\* an address found in a table of more than one bucket built from two
\* networks that merge_all merged
C26_Witness ==
    /\ pc = "looked"
    /\ found
    /\ ip \in Covered(input)
    /\ ip # 0
    /\ hash_base > 1
    /\ Len(results) < Len(input)


(***************************************************************************)
(* C27  every mask variable the table names is declared                    *)
(***************************************************************************)
\* C27: once the text is emitted, every network placed in a bucket has a
\* prefix length among minPrefix, minPrefix + step, ... up to maxPrefix, the
\* lengths for which "var m<p>" was emitted, so every pair [value, m<p>] of
\* the table names a declared variable.
C27_MaskVariablesDeclared ==
    pc \in {"emitted", "looked"} =>
        /\ \A net \in Stored :
              /\ min_prefixlen <= net.prefixlen /\ net.prefixlen <= max_prefixlen
              /\ (net.prefixlen - min_prefixlen) % mask_step = 0
              /\ net.prefixlen \in mvars
        /\ \A k \in 1 .. Len(table) : \A j \in 1 .. Len(table[k]) :
              table[k][j][2] \in mvars


(***************************************************************************)
(* C28  the emitted lookup against the specified matcher                   *)
(***************************************************************************)
\* the specified matcher over the buckets the table was built from: an entry
\* is accepted only when its prefix length is the loop's prefix length and
\* the top prefixLen bits agree
RECURSIVE is_member_loop(_, _, _, _, _, _)
is_member_loop(buckets, a, prefixLen, bucketCount, step, maxPrefix) ==
    IF prefixLen > maxPrefix THEN FALSE
    ELSE LET maskedCandidate == a \div Pow2(AddrBits - prefixLen)
             bucketIndex == (maskedCandidate * Pow2(AddrBits - prefixLen)) % bucketCount
             bucket == buckets[bucketIndex + 1]
         IN  IF \E j \in 1 .. Len(bucket) :
                   /\ bucket[j].prefixlen = prefixLen
                   /\ maskedCandidate =
                        bucket[j].network_address \div Pow2(AddrBits - prefixLen)
             THEN TRUE
             ELSE is_member_loop(buckets, a, prefixLen + step, bucketCount,
                                 step, maxPrefix)

is_member(a) ==
    is_member_loop(hashed_results, a, min_prefixlen, hash_base, mask_step,
                   max_prefixlen)

\* C28: for every table the pipeline builds and every address, the emitted
\* lookup_ip returns a boolean, and it is the boolean the specified matcher
\* is_member returns on the buckets of that table.
C28_LookupRefinesMatcher ==
    pc = "looked" =>
        /\ table_evaluates(table, mvars)
        /\ found = is_member(ip)


(***************************************************************************)
(* C29  interleaved requests                                               *)
(***************************************************************************)
Succeeded(c) ==
    /\ calls[c].pc = "returned"
    /\ calls[c].result[1] = "Generated PAC file successfully!"

\* C29: when two calls run interleaved on one controller, every successful
\* call found, at the moment it returned, the content it returned in the
\* file at the path it returned, and temp_files holds exactly the fallback
\* temp files that exist.
C29_NoInterference ==
    /\ \A c \in Callers : Succeeded(c) => calls[c].file_matches
    /\ { temp_files[j] : j \in 1 .. Len(temp_files) } =
           { TempPath(c) : c \in { d \in Callers : files[TempPath(d)] # "absent" } }


(***************************************************************************)
(* C30  generate_balanced_proxy is total over balance                      *)
(***************************************************************************)
\* C30: for every proxy list and every balance value, also one outside
\* 'no', 'local_ip' and 'host', generate_balanced_proxy has returned text
\* that holds a return statement, never the missing value.
C30_BalancedProxyTotal ==
    pc = "proxy_done" =>
        /\ proxy_js # NoStatement
        /\ proxy_js.kind \in {"return", "local_ip_balance", "target_host_balance"}

====
